---- MODULE Spec2Model ----
(***************************************************************************)
(* Model of the Python examples (examples/python/*_example.py): the        *)
(* address remapping closures, alone and under concurrent calls, and the   *)
(* main() flows from get_config to exit; and of the slot calculator        *)
(* (scripts/calculate_slots.py): crc16, key_slot, get_shard and the tag    *)
(* search of its __main__ block.                                           *)
(*                                                                         *)
(* Python strings are sequences of one-character strings (keys handed to   *)
(* key_slot: sequences of code points); byte strings are sequences of      *)
(* integers 0..255.  Python's None is NoneValue.                           *)
(***************************************************************************)
EXTENDS Integers, Sequences, FiniteSets, TLC

VARIABLES
    program,          \* which example module is running
    public_hostname,  \* the argument create_address_remap's closure captured
    remap_made,       \* TRUE once create_address_remap has returned remap
    exc,              \* the exception raised so far ("none" when none)
    node_ip,          \* the octets of the node behind `address` (NoIp: not an IPv4 literal)
    address,          \* the (host, port) tuple handed to remap
    result,           \* what remap returned (NoResult before the call)
    again,            \* what remap returned for `result` (NoResult before that call)
    th_pc,            \* threads: each thread's position in remap
    th_address,       \* threads: the address each thread called remap with
    th_host,          \* threads: remap's local `host` in each thread
    th_port,          \* threads: remap's local `port` in each thread
    th_result,        \* threads: what each thread's call returned
    th_calls,         \* threads: calls each thread has completed
    log_record,       \* the (host, port) of the logger's latest debug record
    environ,          \* main: os.environ, the variables the program reads
    main_pc,          \* main: position in main()
    config,           \* main: the dict get_config returned (NoConfig before)
    credential_provider, \* main: TRUE once the credential provider exists
    runner,           \* main: the function main hands config to ("none" before)
    clients,          \* main: the kinds of client constructed so far
    exit_code,        \* main: the process exit status (-1 while running)
    demo_ops,         \* demo: the client operations attempted, in order
    demo_failed,      \* demo: the (operation, exception) pairs that were raised
    banner,           \* demo: TRUE once the closing banner is printed
    closed,           \* main: TRUE once client.close() has been called
    search_i,         \* tag search: the loop variable i
    search_pc,        \* tag search: position in the loop
    shard0_tags,      \* tag search: the (tag, slot) pairs found for shard 0
    shard1_tags,      \* tag search: the (tag, slot) pairs found for shard 1
    key,              \* key_slot's argument, a str as code points
    slot,             \* key_slot's return value (NoSlot before the call)
    data,             \* crc16's argument, a byte string
    idx,              \* crc16: index of the byte being processed (1-based)
    iter,             \* crc16: iterations of the inner loop done for this byte
    crc,              \* crc16: the running register
    crc_pc,           \* crc16: position in the function
    num_shards,       \* get_shard's num_shards argument
    shard_slot,       \* get_shard's slot argument
    shard             \* get_shard's return value (NoShard before the call)

closureVars == <<program, public_hostname, remap_made, exc>>
callVars  == <<node_ip, address, result, again>>
remapVars == <<closureVars, callVars>>
slotVars  == <<key, slot>>
crcVars   == <<data, idx, iter, crc, crc_pc>>
shardVars == <<num_shards, shard_slot, shard>>
threadVars == <<th_pc, th_address, th_host, th_port, th_result, th_calls, log_record>>
demoVars  == <<demo_ops, demo_failed, banner, closed>>
mainVars  == <<environ, main_pc, config, runner, credential_provider, clients, exit_code,
               demoVars>>
searchVars == <<search_i, search_pc, shard0_tags, shard1_tags>>
vars == <<program, public_hostname, remap_made, exc, node_ip, address, result, again,
          key, slot, data, idx, iter, crc, crc_pc, num_shards, shard_slot, shard,
          th_pc, th_address, th_host, th_port, th_result, th_calls, log_record,
          environ, main_pc, config, runner, credential_provider, clients, exit_code,
          demo_ops, demo_failed, banner, closed,
          search_i, search_pc, shard0_tags, shard1_tags>>

\* the state of calculate_slots.py
calcVars == <<slotVars, crcVars, shardVars, searchVars>>

(***************************************************************************)
(* Strings                                                                 *)
(***************************************************************************)

\* Python's None
NoneValue == <<"<None>">>

\* str.startswith(prefix)
startswith(s, prefix) ==
    /\ Len(s) >= Len(prefix)
    /\ SubSeq(s, 1, Len(prefix)) = prefix

DigitChars == <<"0", "1", "2", "3", "4", "5", "6", "7", "8", "9">>

\* the decimal text of a natural number, as a node address carries it
RECURSIVE Dec(_)
Dec(n) ==
    IF n < 10 THEN <<DigitChars[n + 1]>>
    ELSE Dec(n \div 10) \o <<DigitChars[(n % 10) + 1]>>

\* the dotted-quad text of the IPv4 address with octets q
DottedQuad(q) ==
    Dec(q[1]) \o <<".">> \o Dec(q[2]) \o <<".">> \o Dec(q[3]) \o <<".">> \o Dec(q[4])

\* the prefixes remap tests
P10     == <<"1", "0", ".">>
P172    == <<"1", "7", "2", ".">>
P192168 == <<"1", "9", "2", ".", "1", "6", "8", ".">>
\* '172.16.' .. '172.31.', in the order of the source
P172_16to31 == [i \in 1..16 |-> P172 \o Dec(15 + i) \o <<".">>]

(***************************************************************************)
(* create_address_remap and the closures it returns                        *)
(***************************************************************************)

Programs == {"cluster", "user_assigned", "system_assigned"}

\* cluster_managed_identity_example.py: the condition of remap's if
cluster_is_internal(host) ==
    \/ startswith(host, P10)
    \/ \E i \in 1..16 : startswith(host, P172_16to31[i])
    \/ startswith(host, P192168)

\* a remap that answers the configured port instead of the node's
cluster_remap_fixed_port(public_host, addr) ==
    IF cluster_is_internal(addr[1]) THEN <<public_host, 10000>> ELSE addr

\* a remap whose 172 list stops at '172.30.'
cluster_remap_short_list(public_host, addr) ==
    IF \/ startswith(addr[1], P10)
       \/ \E i \in 1..15 : startswith(addr[1], P172_16to31[i])
       \/ startswith(addr[1], P192168)
    THEN <<public_host, addr[2]>>
    ELSE addr

\* cluster_managed_identity_example.py: remap(address)
cluster_remap(public_host, addr) ==
    IF cluster_is_internal(addr[1]) THEN <<public_host, addr[2]>> ELSE addr

\* a bare-prefix remap without the '192.168.' test
user_assigned_remap_no_192(public_host, addr) ==
    IF \/ startswith(addr[1], P10)
       \/ startswith(addr[1], P172)
    THEN <<public_host, addr[2]>>
    ELSE addr

\* user_assigned_managed_identity_example.py: remap(address)
user_assigned_remap(public_host, addr) ==
    IF \/ startswith(addr[1], P10)
       \/ startswith(addr[1], P172)
       \/ startswith(addr[1], P192168)
    THEN <<public_host, addr[2]>>
    ELSE addr

\* system_assigned_managed_identity_example.py: remap(address)
system_assigned_remap(public_host, addr) ==
    IF \/ startswith(addr[1], P10)
       \/ startswith(addr[1], P172)
       \/ startswith(addr[1], P192168)
    THEN <<public_host, addr[2]>>
    ELSE addr

\* the closure the running program built
remap(addr) ==
    CASE program = "cluster"         -> cluster_remap(public_hostname, addr)
      [] program = "user_assigned"   -> user_assigned_remap(public_hostname, addr)
      [] program = "system_assigned" -> system_assigned_remap(public_hostname, addr)

(***************************************************************************)
(* scripts/calculate_slots.py: integers and strings                        *)
(***************************************************************************)

\* a ^ b on non-negative integers
RECURSIVE BitXor(_, _)
BitXor(a, b) ==
    IF a = 0 THEN b
    ELSE IF b = 0 THEN a
    ELSE ((a + b) % 2) + 2 * BitXor(a \div 2, b \div 2)

\* a & b on non-negative integers
RECURSIVE BitAnd(_, _)
BitAnd(a, b) ==
    IF a = 0 \/ b = 0 THEN 0
    ELSE ((a % 2) * (b % 2)) + 2 * BitAnd(a \div 2, b \div 2)

\* 0x1021
Poly == 4129
\* 0x8000
TopBit == 32768
\* 0xFFFF
Mask16 == 65535
\* the number of cluster slots
NumSlots == 16384

\* the code points of '{' and '}'
OpenBrace  == 123
CloseBrace == 125

\* str.find(ch, start): the lowest 0-based index >= start holding ch, or -1
find(s, ch, start) ==
    LET hits == {i \in start..(Len(s) - 1) : s[i + 1] = ch}
    IN  IF hits = {} THEN -1
        ELSE CHOOSE i \in hits : \A j \in hits : i <= j

\* s[a:b] for 0 <= a <= b <= len(s)
Slice(s, a, b) == SubSeq(s, a + 1, b)

\* the UTF-8 bytes of one code point below 0x800
EncodeChar(c) ==
    IF c < 128 THEN <<c>>
    ELSE <<192 + (c \div 64), 128 + (c % 64)>>

\* str.encode(): UTF-8
RECURSIVE encode(_)
encode(s) ==
    IF s = <<>> THEN <<>>
    ELSE EncodeChar(Head(s)) \o encode(Tail(s))

(***************************************************************************)
(* crc16, key_slot, get_shard                                              *)
(***************************************************************************)

\* crc ^= byte << 8
Crc16XorByte(c, byte) == BitXor(c, byte * 256)

\* an inner loop body built on the CRC-16/ARC polynomial 0x8005
Crc16IterationArcPoly(c) ==
    BitAnd(IF BitAnd(c, TopBit) # 0 THEN BitXor(c * 2, 32773) ELSE c * 2, Mask16)

\* an inner loop body without `crc &= 0xFFFF`
Crc16IterationNoMask(c) ==
    IF BitAnd(c, TopBit) # 0 THEN BitXor(c * 2, Poly) ELSE c * 2

\* one pass of the inner loop body: test the top bit, shift, mask
Crc16Iteration(c) ==
    BitAnd(IF BitAnd(c, TopBit) # 0 THEN BitXor(c * 2, Poly) ELSE c * 2, Mask16)

\* n passes of the body of `for _ in range(8)`.  (The test c \in Nat makes
\* TLC compute the register before the next pass instead of nesting the
\* passes; the register is never negative.)
RECURSIVE Crc16Iterations(_, _)
Crc16Iterations(c, n) ==
    IF n = 0 \/ c \notin Nat THEN c
    ELSE Crc16Iterations(Crc16Iteration(c), n - 1)

\* the outer loop of crc16 from byte i (1-based) on, with register c
RECURSIVE Crc16From(_, _, _)
Crc16From(c, bytes, i) ==
    IF i > Len(bytes) \/ c \notin Nat THEN c
    ELSE Crc16From(Crc16Iterations(Crc16XorByte(c, bytes[i]), 8), bytes, i + 1)

\* crc16(data)
crc16(bytes) == Crc16From(0, bytes, 1)

\* a key_slot that slices key[start:end], keeping the opening brace
key_slot_slice_from_start(k) ==
    LET start == find(k, OpenBrace, 0)
        end   == IF start >= 0 THEN find(k, CloseBrace, start + 1) ELSE -1
        hashed == IF start >= 0 /\ end > start + 1 THEN Slice(k, start, end) ELSE k
    IN  crc16(encode(hashed)) % NumSlots

\* a key_slot that tests end > start, taking the empty tag of '{}'
key_slot_empty_tag(k) ==
    LET start == find(k, OpenBrace, 0)
        end   == IF start >= 0 THEN find(k, CloseBrace, start + 1) ELSE -1
        hashed == IF start >= 0 /\ end > start THEN Slice(k, start + 1, end) ELSE k
    IN  crc16(encode(hashed)) % NumSlots

\* a key_slot that returns the checksum itself
key_slot_no_modulo(k) ==
    LET start == find(k, OpenBrace, 0)
        end   == IF start >= 0 THEN find(k, CloseBrace, start + 1) ELSE -1
        hashed == IF start >= 0 /\ end > start + 1 THEN Slice(k, start + 1, end) ELSE k
    IN  crc16(encode(hashed))

\* a key_slot that hashes the whole key, hash tag or not
key_slot_whole_key(k) == crc16(encode(k)) % NumSlots

\* key_slot(key)
key_slot(k) ==
    LET start == find(k, OpenBrace, 0)
        end   == IF start >= 0 THEN find(k, CloseBrace, start + 1) ELSE -1
        hashed == IF start >= 0 /\ end > start + 1 THEN Slice(k, start + 1, end) ELSE k
    IN  crc16(encode(hashed)) % NumSlots

\* a get_shard whose slots_per_shard is rounded up
get_shard_rounded_up(s, n) ==
    LET slots_per_shard == (NumSlots + n - 1) \div n
    IN  s \div slots_per_shard

\* get_shard(slot, num_shards)
get_shard(s, n) ==
    LET slots_per_shard == NumSlots \div n
    IN  s \div slots_per_shard

(***************************************************************************)
(* The inputs of the remap programs                                        *)
(***************************************************************************)

\* no create_address_remap call yet
Unset == <<"<unset>">>
\* remap not called yet
NoResult == <<>>
\* the host of `address` is not the text of an IPv4 address
NoIp == <<>>

\* 'redis-xxx.azure.net'
RedisAzureNet == <<"r", "e", "d", "i", "s", "-", "x", "x", "x", ".", "a", "z", "u", "r", "e", ".", "n", "e", "t">>
\* '10.cache.example.net'
H10CacheExampleNet == <<"1", "0", ".", "c", "a", "c", "h", "e", ".", "e", "x", "a", "m", "p", "l", "e", ".", "n", "e", "t">>

\* DNS-style names: hosts with letters in them
Hostnames ==
    {RedisAzureNet, H10CacheExampleNet,
     \* 'localhost'
     <<"l", "o", "c", "a", "l", "h", "o", "s", "t">>,
     \* '192.168.internal'
     <<"1", "9", "2", ".", "1", "6", "8", ".", "i", "n", "t", "e", "r", "n", "a", "l">>,
     \* '172.16.svc.local'
     <<"1", "7", "2", ".", "1", "6", ".", "s", "v", "c", ".", "l", "o", "c", "a", "l">>}

\* texts that begin like an IPv4 address and are none
MalformedHosts ==
    {\* '10.', '10.abc', '10.999.1.1'
     <<"1", "0", ".">>,
     <<"1", "0", ".", "a", "b", "c">>,
     <<"1", "0", ".", "9", "9", "9", ".", "1", ".", "1">>,
     \* '192.168.', '172.16.', '10.0.0.0.0.1'
     <<"1", "9", "2", ".", "1", "6", "8", ".">>,
     <<"1", "7", "2", ".", "1", "6", ".">>,
     <<"1", "0", ".", "0", ".", "0", ".", "0", ".", "0", ".", "1">>}

\* hosts that are not the text of an IPv4 address
OtherHosts == Hostnames \cup MalformedHosts

\* the last two octets the model tries
Tails == {<<0, 1>>, <<255, 255>>}
\* first octets other than 172, and the second octets tried with them
OtherFirst  == {1, 9, 10, 11, 17, 100, 171, 173, 191, 192, 193, 203}
OtherSecond == {0, 16, 31, 113, 167, 168, 169, 255}

\* the node IPv4 addresses the model tries: every second octet under 172,
\* the edges of the private ranges elsewhere, and the addresses the
\* documentation names
Quads ==
    {<<172, b, t[1], t[2]>> : b \in 0..255, t \in Tails}
    \cup {<<a, b, t[1], t[2]>> : a \in OtherFirst, b \in OtherSecond, t \in Tails}
    \cup {<<10, 0, 2, 4>>, <<203, 0, 113, 5>>}

\* 8500: a node port; 10000: the default REDIS_PORT
Ports == {8500, 10000}

\* the arguments create_address_remap is tried with
HostnameArgs ==
    {RedisAzureNet, H10CacheExampleNet, DottedQuad(<<203, 0, 113, 5>>),
     DottedQuad(<<10, 0, 2, 4>>), <<>>, NoneValue}

(***************************************************************************)
(* The remap programs: create_address_remap, then remap on a node address  *)
(***************************************************************************)

\* get_config has not returned
NoConfig == <<>>

\* key_slot has no argument
NoKey == <<-1>>

slotIdle  == key = NoKey /\ slot = -1
crcIdle   == data = <<>> /\ idx = 0 /\ iter = 0 /\ crc = 0 /\ crc_pc = "idle"
shardIdle == num_shards = 0 /\ shard_slot = 0 /\ shard = -1
callIdle  == node_ip = NoIp /\ address = <<>> /\ result = NoResult /\ again = NoResult
closureIdle ==
    program = "none" /\ public_hostname = Unset /\ remap_made = FALSE /\ exc = "none"
remapIdle == closureIdle /\ callIdle
threadIdle ==
    /\ th_pc = <<>> /\ th_address = <<>> /\ th_host = <<>> /\ th_port = <<>>
    /\ th_result = <<>> /\ th_calls = <<>> /\ log_record = <<>>
mainIdle ==
    /\ environ = <<>> /\ main_pc = "idle" /\ config = NoConfig
    /\ runner = "none" /\ credential_provider = FALSE /\ clients = {}
    /\ exit_code = -1
    /\ demo_ops = <<>> /\ demo_failed = {} /\ banner = FALSE /\ closed = FALSE
searchIdle ==
    search_i = 0 /\ search_pc = "idle" /\ shard0_tags = <<>> /\ shard1_tags = <<>>

InitRemap ==
    /\ program \in Programs
    /\ public_hostname = Unset
    /\ remap_made = FALSE
    /\ exc = "none"
    /\ \/ \E q \in Quads, p \in Ports :
            node_ip = q /\ address = <<DottedQuad(q), p>>
       \/ \E h \in OtherHosts, p \in Ports :
            node_ip = NoIp /\ address = <<h, p>>
    /\ result = NoResult
    /\ again = NoResult
    /\ slotIdle /\ crcIdle /\ shardIdle /\ threadIdle /\ mainIdle /\ searchIdle

\* create_address_remap(public_hostname): defines remap and returns it;
\* the body holds no check of its argument and no raise
CreateAddressRemap ==
    /\ address # <<>>
    /\ public_hostname = Unset
    /\ \E h \in HostnameArgs : public_hostname' = h
    /\ remap_made' = TRUE
    /\ UNCHANGED <<program, exc, callVars>>
    /\ UNCHANGED <<calcVars, threadVars, mainVars>>

\* the cluster client calls remap(address) on a discovered node address
Remap ==
    /\ address # <<>>
    /\ remap_made
    /\ result = NoResult
    /\ result' = remap(address)
    /\ UNCHANGED <<closureVars, node_ip, address, again>>
    /\ UNCHANGED <<calcVars, threadVars, mainVars>>

\* remap is called on the address it returned: host.startswith is looked
\* up on the host, which is None when None was captured
RemapAgain ==
    /\ result # NoResult
    /\ again = NoResult
    /\ exc = "none"
    /\ IF result[1] = NoneValue
       THEN exc' = "AttributeError" /\ again' = again
       ELSE exc' = exc /\ again' = remap(result)
    /\ UNCHANGED <<program, public_hostname, remap_made, node_ip, address, result>>
    /\ UNCHANGED <<calcVars, threadVars, mainVars>>

NextRemap == CreateAddressRemap \/ Remap \/ RemapAgain

SpecRemap == InitRemap /\ [][NextRemap]_vars

(***************************************************************************)
(* remap called from several threads of the cluster client at once; the    *)
(* closure was created before the threads start                            *)
(***************************************************************************)

\* the threads calling remap, and the calls each of them makes
NumThreads == 2
MaxCalls   == 2

Threads == 1..NumThreads

\* the node addresses the threads are handed
ThreadAddresses ==
    {<<DottedQuad(<<10, 0, 2, 4>>), 8500>>,
     <<DottedQuad(<<172, 16, 0, 1>>), 10000>>,
     <<DottedQuad(<<203, 0, 113, 5>>), 8500>>}

\* remap's return statement with the port taken from the logger's latest
\* record, which all threads share
remap_return_shared_port(t) ==
    IF th_pc[t] = "return_public"
    THEN <<public_hostname, log_record[2]>>
    ELSE th_address[t]

\* remap's two return statements: (public_hostname, port) or address
remap_return(t) ==
    IF th_pc[t] = "return_public"
    THEN <<public_hostname, th_port[t]>>
    ELSE th_address[t]

InitThreads ==
    /\ program = "cluster"
    /\ public_hostname \in {RedisAzureNet, DottedQuad(<<203, 0, 113, 5>>)}
    /\ remap_made = TRUE
    /\ exc = "none"
    /\ th_pc = [t \in Threads |-> "ready"]
    /\ th_address = [t \in Threads |-> <<>>]
    /\ th_host = [t \in Threads |-> <<>>]
    /\ th_port = [t \in Threads |-> 0]
    /\ th_result = [t \in Threads |-> NoResult]
    /\ th_calls = [t \in Threads |-> 0]
    /\ log_record = <<>>
    /\ callIdle /\ slotIdle /\ crcIdle /\ shardIdle /\ mainIdle /\ searchIdle

\* thread t calls remap(address)
ThreadCall(t) ==
    /\ th_pc # <<>>
    /\ th_pc[t] = "ready"
    /\ th_calls[t] < MaxCalls
    /\ \E a \in ThreadAddresses : th_address' = [th_address EXCEPT ![t] = a]
    /\ th_result' = [th_result EXCEPT ![t] = NoResult]
    /\ th_pc' = [th_pc EXCEPT ![t] = "unpack"]
    /\ UNCHANGED <<th_host, th_port, th_calls, log_record>>
    /\ UNCHANGED <<closureVars, callVars, calcVars, mainVars>>

\* host, port = address
ThreadUnpack(t) ==
    /\ th_pc # <<>>
    /\ th_pc[t] = "unpack"
    /\ th_host' = [th_host EXCEPT ![t] = th_address[t][1]]
    /\ th_port' = [th_port EXCEPT ![t] = th_address[t][2]]
    /\ th_pc' = [th_pc EXCEPT ![t] = "test"]
    /\ UNCHANGED <<th_address, th_result, th_calls, log_record>>
    /\ UNCHANGED <<closureVars, callVars, calcVars, mainVars>>

\* is_internal = ...; if is_internal: logger.debug(...)
ThreadTest(t) ==
    /\ th_pc # <<>>
    /\ th_pc[t] = "test"
    /\ IF cluster_is_internal(th_host[t])
       THEN /\ log_record' = <<th_host[t], th_port[t]>>
            /\ th_pc' = [th_pc EXCEPT ![t] = "return_public"]
       ELSE /\ log_record' = log_record
            /\ th_pc' = [th_pc EXCEPT ![t] = "return_address"]
    /\ UNCHANGED <<th_address, th_host, th_port, th_result, th_calls>>
    /\ UNCHANGED <<closureVars, callVars, calcVars, mainVars>>

\* return (public_hostname, port) / return address: the locals are gone
ThreadReturn(t) ==
    /\ th_pc # <<>>
    /\ th_pc[t] \in {"return_public", "return_address"}
    /\ th_result' = [th_result EXCEPT ![t] = remap_return(t)]
    /\ th_host' = [th_host EXCEPT ![t] = <<>>]
    /\ th_port' = [th_port EXCEPT ![t] = 0]
    /\ th_calls' = [th_calls EXCEPT ![t] = th_calls[t] + 1]
    /\ th_pc' = [th_pc EXCEPT ![t] = "ready"]
    /\ UNCHANGED <<th_address, log_record>>
    /\ UNCHANGED <<closureVars, callVars, calcVars, mainVars>>

NextThreads ==
    \E t \in Threads :
        ThreadCall(t) \/ ThreadUnpack(t) \/ ThreadTest(t) \/ ThreadReturn(t)

SpecThreads == InitThreads /\ [][NextThreads]_vars

(***************************************************************************)
(* main() of the five example programs: get_config, then the credential    *)
(* provider, the remap closure (cluster clients only), the client, the     *)
(* demo, close                                                             *)
(***************************************************************************)

MainPrograms ==
    {"cluster", "user_assigned", "system_assigned", "managed_identity", "service_principal"}

UpperLetters == <<"A", "B", "C", "D", "E", "F", "G", "H", "I", "J", "K", "L", "M", "N", "O", "P", "Q", "R", "S", "T", "U", "V", "W", "X", "Y", "Z">>
LowerLetters == <<"a", "b", "c", "d", "e", "f", "g", "h", "i", "j", "k", "l", "m", "n", "o", "p", "q", "r", "s", "t", "u", "v", "w", "x", "y", "z">>

\* str.lower() on one character
lower_char(c) ==
    IF \E n \in 1..26 : UpperLetters[n] = c
    THEN LowerLetters[CHOOSE n \in 1..26 : UpperLetters[n] = c]
    ELSE c

\* str.lower()
lower(s) == [n \in 1..Len(s) |-> lower_char(s[n])]

\* int(s) accepts s: here, a non-empty run of decimal digits
is_int_literal(s) ==
    /\ s # <<>>
    /\ \A n \in 1..Len(s) : \E d \in 1..10 : DigitChars[d] = s[n]

\* int(s) for such s
RECURSIVE int(_)
int(s) ==
    IF s = <<>> THEN 0
    ELSE 10 * int(SubSeq(s, 1, Len(s) - 1))
         + (CHOOSE d \in 0..9 : DigitChars[d + 1] = s[Len(s)])

\* `not value` for an environment value: unset (None) or ''
falsy(v) == v = NoneValue \/ v = <<>>

\* 'OSSCluster', 'osscluster', 'OSSCLUSTER'
OSSCluster == <<"O", "S", "S", "C", "l", "u", "s", "t", "e", "r">>
osscluster == <<"o", "s", "s", "c", "l", "u", "s", "t", "e", "r">>
OSSCLUSTER == <<"O", "S", "S", "C", "L", "U", "S", "T", "E", "R">>
\* 'EnterpriseCluster'
EnterpriseCluster == <<"E", "n", "t", "e", "r", "p", "r", "i", "s", "e", "C", "l", "u", "s", "t", "e", "r">>
\* 'my-client-id'
MyClientId == <<"m", "y", "-", "c", "l", "i", "e", "n", "t", "-", "i", "d">>

\* the values of the environment variables the model tries; NoneValue is
\* an unset variable
ClientIds == {NoneValue, <<>>, MyClientId}
RedisHostnames == {NoneValue, <<>>, RedisAzureNet}
RedisPorts ==
    {NoneValue, <<>>,
     \* '10000', '6380', 'abc'
     <<"1", "0", "0", "0", "0">>,
     <<"6", "3", "8", "0">>,
     <<"a", "b", "c">>}
ClusterPolicies ==
    {NoneValue, <<>>, OSSCluster, osscluster, OSSCLUSTER, EnterpriseCluster,
     \* 'oSScLUSTER', 'OSSClusters', 'OSS'
     <<"o", "S", "S", "c", "L", "U", "S", "T", "E", "R">>,
     <<"O", "S", "S", "C", "l", "u", "s", "t", "e", "r", "s">>,
     <<"O", "S", "S">>}

\* os.environ.get(name, default)
environ_get(v, default) == IF v = NoneValue THEN default ELSE v

\* the config dict the get_config functions build; int() raises ValueError
\* while it is built
port_raises(env) ==
    env.REDIS_PORT # NoneValue /\ ~is_int_literal(env.REDIS_PORT)
config_dict(env) ==
    [client_id      |-> env.AZURE_CLIENT_ID,
     client_secret  |-> env.AZURE_CLIENT_SECRET,
     tenant_id      |-> env.AZURE_TENANT_ID,
     redis_host     |-> env.REDIS_HOSTNAME,
     redis_port     |-> IF env.REDIS_PORT = NoneValue THEN 10000 ELSE int(env.REDIS_PORT),
     cluster_policy |-> environ_get(env.REDIS_CLUSTER_POLICY, EnterpriseCluster)]

\* what a get_config call gives: a ValueError or the dict
Raised == [raised |-> TRUE, config |-> NoConfig]
Returned(c) == [raised |-> FALSE, config |-> c]

\* get_config of cluster_managed_identity_example.py
cluster_get_config(env) ==
    IF port_raises(env) THEN Raised
    ELSE IF falsy(env.AZURE_CLIENT_ID) THEN Raised
    ELSE IF falsy(env.REDIS_HOSTNAME) THEN Raised
    ELSE Returned(config_dict(env))

\* get_config of user_assigned_managed_identity_example.py
user_assigned_get_config(env) ==
    IF port_raises(env) THEN Raised
    ELSE IF falsy(env.AZURE_CLIENT_ID) THEN Raised
    ELSE IF falsy(env.REDIS_HOSTNAME) THEN Raised
    ELSE Returned(config_dict(env))

\* get_config of system_assigned_managed_identity_example.py
system_assigned_get_config(env) ==
    IF port_raises(env) THEN Raised
    ELSE IF falsy(env.REDIS_HOSTNAME) THEN Raised
    ELSE Returned(config_dict(env))

\* get_config of managed_identity_example.py
managed_identity_get_config(env) ==
    IF port_raises(env) THEN Raised
    ELSE IF falsy(env.AZURE_CLIENT_ID) THEN Raised
    ELSE IF falsy(env.REDIS_HOSTNAME) THEN Raised
    ELSE Returned(config_dict(env))

\* get_config of service_principal_example.py: collects the missing names
service_principal_get_config(env) ==
    LET missing ==
            {n \in {"AZURE_CLIENT_ID", "AZURE_CLIENT_SECRET", "AZURE_TENANT_ID",
                    "REDIS_HOSTNAME"} : falsy(env[n])}
    IN  IF port_raises(env) THEN Raised
        ELSE IF missing # {} THEN Raised
        ELSE Returned(config_dict(env))

\* a get_config that never looks at redis_host
get_config_host_unchecked(prog, env) ==
    IF port_raises(env) THEN Raised
    ELSE IF prog \in {"cluster", "user_assigned", "managed_identity", "service_principal"}
            /\ falsy(env.AZURE_CLIENT_ID) THEN Raised
    ELSE Returned(config_dict(env))

\* get_config() of the running program
get_config(prog, env) ==
    CASE prog = "cluster"           -> cluster_get_config(env)
      [] prog = "user_assigned"     -> user_assigned_get_config(env)
      [] prog = "system_assigned"   -> system_assigned_get_config(env)
      [] prog = "managed_identity"  -> managed_identity_get_config(env)
      [] prog = "service_principal" -> service_principal_get_config(env)

\* a comparison with 'OSSCluster' that minds the case
is_oss_cluster_exact(cfg) == cfg.cluster_policy = OSSCluster

\* is_oss_cluster = config['cluster_policy'].lower() == 'osscluster'
is_oss_cluster(cfg) == lower(cfg.cluster_policy) = osscluster

\* the function main() hands config to
runner_of(prog, cfg) ==
    CASE prog = "cluster" -> "create_redis_cluster_client"
      [] prog \in {"user_assigned", "system_assigned"} ->
            IF is_oss_cluster(cfg)
            THEN "run_with_cluster_client"
            ELSE "run_with_standard_client"
      [] OTHER -> "create_redis_client"

\* the runners that build a RedisCluster client
ClusterRunners == {"create_redis_cluster_client", "run_with_cluster_client"}

\* the environment of one run: a program's unread variables stay unset
Environs(prog) ==
    [AZURE_CLIENT_ID :
        IF prog = "system_assigned" THEN {NoneValue} ELSE ClientIds,
     \* unset or 'secret'
     AZURE_CLIENT_SECRET :
        IF prog = "service_principal"
        THEN {NoneValue, <<"s", "e", "c", "r", "e", "t">>} ELSE {NoneValue},
     \* unset or 'tenant'
     AZURE_TENANT_ID :
        IF prog = "service_principal"
        THEN {NoneValue, <<"t", "e", "n", "a", "n", "t">>} ELSE {NoneValue},
     REDIS_HOSTNAME : RedisHostnames,
     REDIS_PORT : RedisPorts,
     REDIS_CLUSTER_POLICY :
        IF prog \in {"user_assigned", "system_assigned"}
        THEN ClusterPolicies ELSE {NoneValue}]

\* what one call on the client does
Outcomes == {"ok", "RedisError", "Exception"}

\* the client calls of each program's demo, in the order of its statements
demo_operations(prog) ==
    CASE prog = "cluster" ->
           <<"PING", "SET", "SET", "SET", "SET", "GET", "GET", "GET", "GET", "INCR",
             "CLUSTER INFO", "CLUSTER NODES", "DELETE", "DELETE", "DELETE", "DELETE">>
      [] prog \in {"user_assigned", "system_assigned"} ->
           <<"PING", "SET", "GET", "INCR", "INFO", "DELETE">>
      [] prog = "managed_identity" ->
           <<"PING", "SET", "GET", "INFO", "DELETE">>
      [] prog = "service_principal" ->
           <<"PING", "SET", "GET", "INCR", "DBSIZE", "DELETE">>

\* run_demo of the cluster example after one call: only cluster_info,
\* cluster_nodes and the deletes sit in try/except Exception, an exception
\* of any other call leaves run_demo
run_demo_step(op, outcome) ==
    IF outcome = "ok" THEN "next"
    ELSE IF op \in {"CLUSTER INFO", "CLUSTER NODES", "DELETE"} THEN "next"
    ELSE "raise"

\* run_demo_operations with a failing GET that is only reported
run_demo_operations_get_continues(op, outcome) ==
    IF outcome = "ok" THEN "next"
    ELSE IF outcome # "RedisError" THEN "raise"
    ELSE IF op \in {"PING", "SET"} THEN "return" ELSE "next"

\* run_demo_operations after one call: every call sits in try/except
\* RedisError, and the handlers of PING, SET and GET return
run_demo_operations_step(op, outcome) ==
    IF outcome = "ok" THEN "next"
    ELSE IF outcome # "RedisError" THEN "raise"
    ELSE IF op \in {"PING", "SET", "GET"} THEN "return" ELSE "next"

\* how the demo goes on after a call: with its next statement ("next"), by
\* returning early ("return") or by letting the exception out ("raise")
demo_step(prog, op, outcome) ==
    IF prog = "cluster" THEN run_demo_step(op, outcome)
    ELSE run_demo_operations_step(op, outcome)

InitMain ==
    /\ program \in MainPrograms
    /\ environ \in Environs(program)
    /\ public_hostname = Unset
    /\ remap_made = FALSE
    /\ exc = "none"
    /\ main_pc = "get_config"
    /\ config = NoConfig
    /\ runner = "none"
    /\ credential_provider = FALSE
    /\ clients = {}
    /\ exit_code = -1
    /\ demo_ops = <<>> /\ demo_failed = {} /\ banner = FALSE /\ closed = FALSE
    /\ callIdle /\ slotIdle /\ crcIdle /\ shardIdle /\ threadIdle /\ searchIdle

\* config = get_config()
MainGetConfig ==
    /\ main_pc = "get_config"
    /\ LET r == get_config(program, environ)
       IN  IF r.raised
           THEN exc' = "ValueError" /\ config' = config /\ main_pc' = "except"
           ELSE exc' = exc /\ config' = r.config /\ main_pc' = "dispatch"
    /\ UNCHANGED <<program, public_hostname, remap_made>>
    /\ UNCHANGED <<environ, runner, credential_provider, clients, exit_code, demoVars>>
    /\ UNCHANGED <<callVars, calcVars, threadVars>>

\* main() picks the function that builds the client
MainDispatch ==
    /\ main_pc = "dispatch"
    /\ runner' = runner_of(program, config)
    /\ main_pc' = "credential_provider"
    /\ UNCHANGED closureVars
    /\ UNCHANGED <<environ, config, credential_provider, clients, exit_code, demoVars>>
    /\ UNCHANGED <<callVars, calcVars, threadVars>>

\* create_from_managed_identity / create_from_service_principal: returns
\* the provider or raises
MainCreateCredentialProvider ==
    /\ main_pc = "credential_provider"
    /\ \E ok \in BOOLEAN :
          IF ok
          THEN /\ credential_provider' = TRUE
               /\ exc' = exc
               /\ main_pc' = IF runner \in ClusterRunners
                             THEN "create_address_remap" ELSE "client"
          ELSE /\ credential_provider' = credential_provider
               /\ exc' = "Exception"
               /\ main_pc' = "except"
    /\ UNCHANGED <<program, public_hostname, remap_made>>
    /\ UNCHANGED <<environ, config, runner, clients, exit_code, demoVars>>
    /\ UNCHANGED <<callVars, calcVars, threadVars>>

\* address_remap = create_address_remap(config['redis_host'])
MainCreateAddressRemap ==
    /\ main_pc = "create_address_remap"
    /\ public_hostname' = config.redis_host
    /\ remap_made' = TRUE
    /\ main_pc' = "client"
    /\ UNCHANGED <<program, exc>>
    /\ UNCHANGED <<environ, config, runner, credential_provider, clients, exit_code, demoVars>>
    /\ UNCHANGED <<callVars, calcVars, threadVars>>

\* client = RedisCluster(..., address_remap=address_remap), which connects
\* and may raise, or client = Redis(...), which does not connect
MainCreateClient ==
    /\ main_pc = "client"
    /\ \E ok \in BOOLEAN :
          IF ok \/ runner \notin ClusterRunners
          THEN /\ clients' = clients \cup
                    {IF runner \in ClusterRunners THEN "RedisCluster" ELSE "Redis"}
               /\ exc' = exc
               /\ main_pc' = "demo"
          ELSE /\ clients' = clients
               /\ exc' = "RedisError"
               /\ main_pc' = "except"
    /\ UNCHANGED <<program, public_hostname, remap_made>>
    /\ UNCHANGED <<environ, config, runner, credential_provider, exit_code, demoVars>>
    /\ UNCHANGED <<callVars, calcVars, threadVars>>

\* one client call of run_demo / run_demo_operations, and what follows it
MainDemoOp ==
    /\ main_pc = "demo"
    /\ Len(demo_ops) < Len(demo_operations(program))
    /\ LET op == demo_operations(program)[Len(demo_ops) + 1] IN
       \E outcome \in Outcomes :
          LET step == demo_step(program, op, outcome) IN
          /\ demo_ops' = Append(demo_ops, op)
          /\ demo_failed' = IF outcome = "ok" THEN demo_failed
                            ELSE demo_failed \cup {<<op, outcome>>}
          /\ main_pc' = CASE step = "next"   -> "demo"
                          [] step = "return" -> "close"
                          [] step = "raise"  -> "except"
          /\ exc' = IF step = "raise" THEN outcome ELSE exc
    /\ UNCHANGED <<program, public_hostname, remap_made>>
    /\ UNCHANGED <<environ, config, runner, credential_provider, clients, exit_code>>
    /\ UNCHANGED <<banner, closed>>
    /\ UNCHANGED <<callVars, calcVars, threadVars>>

\* the last statements of the demo: the closing banner, then the return
MainDemoBanner ==
    /\ main_pc = "demo"
    /\ Len(demo_ops) = Len(demo_operations(program))
    /\ banner' = TRUE
    /\ main_pc' = "close"
    /\ UNCHANGED closureVars
    /\ UNCHANGED <<environ, config, runner, credential_provider, clients, exit_code>>
    /\ UNCHANGED <<demo_ops, demo_failed, closed>>
    /\ UNCHANGED <<callVars, calcVars, threadVars>>

\* client.close(): returns, or raises into main's except clause
MainClose ==
    /\ main_pc = "close"
    /\ closed' = TRUE
    /\ \E outcome \in {"ok", "Exception"} :
          IF outcome = "ok"
          THEN exc' = exc /\ main_pc' = "return"
          ELSE exc' = outcome /\ main_pc' = "except"
    /\ UNCHANGED <<program, public_hostname, remap_made>>
    /\ UNCHANGED <<environ, config, runner, credential_provider, clients, exit_code>>
    /\ UNCHANGED <<demo_ops, demo_failed, banner>>
    /\ UNCHANGED <<callVars, calcVars, threadVars>>

\* main() is left: status 1 from an except clause, 0 otherwise
MainExit ==
    /\ main_pc \in {"return", "except"}
    /\ exit_code' = IF main_pc = "except" THEN 1 ELSE 0
    /\ main_pc' = "exited"
    /\ UNCHANGED closureVars
    /\ UNCHANGED <<environ, config, runner, credential_provider, clients, demoVars>>
    /\ UNCHANGED <<callVars, calcVars, threadVars>>

NextMain ==
    \/ MainGetConfig \/ MainDispatch \/ MainCreateCredentialProvider
    \/ MainCreateAddressRemap \/ MainCreateClient \/ MainDemoOp
    \/ MainDemoBanner \/ MainClose \/ MainExit

SpecMain == InitMain /\ [][NextMain]_vars

(***************************************************************************)
(* The inputs of the slot calculator                                       *)
(***************************************************************************)

\* the longest generated key, byte string and shard count
MaxKeyLen  == 4
MaxDataLen == 3
MaxShards  == 4

\* every sequence over S of length at most n
SeqsUpTo(S, n) == UNION {[1..m -> S] : m \in 0..n}

\* '{', '}', 'a' and the two-byte 'é'
KeyAlphabet == {OpenBrace, CloseBrace, 97, 233}

\* 'user1000'
KeyUser1000 == <<117, 115, 101, 114, 49, 48, 48, 48>>
\* '{user1000}.following'
KeyUser1000Following ==
    <<123, 117, 115, 101, 114, 49, 48, 48, 48, 125, 46, 102, 111, 108, 108, 111, 119, 105, 110, 103>>
\* '{}.data'
KeyEmptyTagData == <<123, 125, 46, 100, 97, 116, 97>>
\* '{}{a}'
KeyEmptyTagThenA == <<123, 125, 123, 97, 125>>
\* 'foo'
KeyFoo == <<102, 111, 111>>
\* '123456789'
Digits1to9 == <<49, 50, 51, 52, 53, 54, 55, 56, 57>>

\* f"{i}": the decimal digits of i, as code points
RECURSIVE str_int(_)
str_int(n) ==
    IF n < 10 THEN <<48 + n>>
    ELSE str_int(n \div 10) \o <<48 + (n % 10)>>

\* tag = f"slot{i}"
slot_tag(n) == <<115, 108, 111, 116>> \o str_int(n)

\* run_demo's test_keys: ("{slot2}", "shard0"), ("{slot3}", "shard0"),
\* ("{slot0}", "shard1"), ("{slot1}", "shard1")
test_keys ==
    <<<<<<OpenBrace>> \o slot_tag(2) \o <<CloseBrace>>, "shard0">>,
      <<<<OpenBrace>> \o slot_tag(3) \o <<CloseBrace>>, "shard0">>,
      <<<<OpenBrace>> \o slot_tag(0) \o <<CloseBrace>>, "shard1">>,
      <<<<OpenBrace>> \o slot_tag(1) \o <<CloseBrace>>, "shard1">>>>

\* datetime.now().isoformat(): '2026-11-01T09:32:4d', alone when the
\* microsecond is 0 and followed by '.ffffff' otherwise
Timestamps ==
    {<<50, 48, 50, 54, 45, 49, 49, 45, 48, 49, 84, 48, 57, 58, 51, 50, 58, 52>> \o <<48 + d>> \o f :
        d \in 0..9, f \in {<<>>, <<46, 48, 48, 48, 48, 48, 49>>, <<46, 57, 57, 57, 57, 57, 57>>}}

\* key = f"py-cluster:{hash_tag}:{datetime.now().isoformat()}"
demo_key(hash_tag, timestamp) ==
    <<112, 121, 45, 99, 108, 117, 115, 116, 101, 114, 58>> \o hash_tag \o <<58>> \o timestamp

\* the keys run_demo writes
DemoKeys == {demo_key(test_keys[n][1], t) : n \in 1..Len(test_keys), t \in Timestamps}

\* the keys key_slot is tried with
Keys ==
    SeqsUpTo(KeyAlphabet, MaxKeyLen)
    \cup {KeyUser1000, KeyUser1000Following, KeyEmptyTagData, KeyEmptyTagThenA, KeyFoo}
    \cup DemoKeys \cup {slot_tag(n) : n \in 0..3}

\* the byte values crc16 is tried with
ByteSample == {0, 1, 49, 128, 255}

\* the byte strings crc16 is tried with
ByteStrings == SeqsUpTo(ByteSample, MaxDataLen) \cup {Digits1to9}

(***************************************************************************)
(* crc16, one loop step at a time                                          *)
(***************************************************************************)

\* crc16(data) is entered: crc = 0, the outer loop is at the first byte
InitCrc ==
    /\ data \in ByteStrings
    /\ crc = 0
    /\ idx = 1
    /\ iter = 0
    /\ crc_pc = "for_byte"
    /\ remapIdle /\ slotIdle /\ shardIdle /\ threadIdle /\ mainIdle /\ searchIdle

\* for byte in data: crc ^= byte << 8
Crc16NextByte ==
    /\ crc_pc = "for_byte"
    /\ idx <= Len(data)
    /\ crc' = Crc16XorByte(crc, data[idx])
    /\ iter' = 0
    /\ crc_pc' = "for_bit"
    /\ UNCHANGED <<data, idx>>
    /\ UNCHANGED <<remapVars, threadVars, mainVars, slotVars, shardVars, searchVars>>

\* for _ in range(8): one pass of the body
Crc16Iterate ==
    /\ crc_pc = "for_bit"
    /\ iter < 8
    /\ crc' = Crc16Iteration(crc)
    /\ iter' = iter + 1
    /\ IF iter + 1 = 8
       THEN idx' = idx + 1 /\ crc_pc' = "for_byte"
       ELSE idx' = idx /\ crc_pc' = "for_bit"
    /\ UNCHANGED data
    /\ UNCHANGED <<remapVars, threadVars, mainVars, slotVars, shardVars, searchVars>>

\* return crc
Crc16Return ==
    /\ crc_pc = "for_byte"
    /\ idx > Len(data)
    /\ crc_pc' = "done"
    /\ UNCHANGED <<data, idx, iter, crc>>
    /\ UNCHANGED <<remapVars, threadVars, mainVars, slotVars, shardVars, searchVars>>

NextCrc == Crc16NextByte \/ Crc16Iterate \/ Crc16Return

SpecCrc == InitCrc /\ [][NextCrc]_vars

(***************************************************************************)
(* key_slot and get_shard                                                  *)
(***************************************************************************)

InitSlots ==
    /\ key \in Keys
    /\ slot = -1
    /\ remapIdle /\ crcIdle /\ shardIdle /\ threadIdle /\ mainIdle /\ searchIdle

\* slot = key_slot(key)
KeySlot ==
    /\ key # NoKey
    /\ slot = -1
    /\ slot' = key_slot(key)
    /\ UNCHANGED key
    /\ UNCHANGED <<remapVars, threadVars, mainVars, crcVars, shardVars, searchVars>>

NextSlots == KeySlot

SpecSlots == InitSlots /\ [][NextSlots]_vars

\* the shard counts get_shard is tried with: the small ones, one that
\* leaves a large remainder, the first that gives one slot per shard, and
\* the largest
ShardCounts == (1..MaxShards) \cup {100, 8193, NumSlots}

InitShard ==
    /\ shard_slot \in 0..(NumSlots - 1)
    /\ num_shards \in ShardCounts
    /\ shard = -1
    /\ remapIdle /\ slotIdle /\ crcIdle /\ threadIdle /\ mainIdle /\ searchIdle

\* shard = get_shard(slot, num_shards)
GetShard ==
    /\ num_shards > 0
    /\ shard = -1
    /\ shard' = get_shard(shard_slot, num_shards)
    /\ UNCHANGED <<num_shards, shard_slot>>
    /\ UNCHANGED <<remapVars, threadVars, mainVars, slotVars, crcVars, searchVars>>

NextShard == GetShard

SpecShard == InitShard /\ [][NextShard]_vars

(***************************************************************************)
(* The __main__ block of calculate_slots.py: the search for two tags per   *)
(* shard among slot0 .. slot999                                            *)
(***************************************************************************)

\* range(1000)
SearchRange == 1000
\* the first slot of shard 1 of 2
ShardBoundary == 8192

\* the loop body with the two lists exchanged
search_append_swapped(tags0, tags1, tag, s) ==
    IF s < ShardBoundary /\ Len(tags1) < 2
    THEN <<tags0, Append(tags1, <<tag, s>>)>>
    ELSE IF s >= ShardBoundary /\ Len(tags0) < 2
    THEN <<Append(tags0, <<tag, s>>), tags1>>
    ELSE <<tags0, tags1>>

\* if slot < 8192 and len(shard0_tags) < 2: shard0_tags.append((tag, slot))
\* elif slot >= 8192 and len(shard1_tags) < 2: shard1_tags.append((tag, slot))
search_append(tags0, tags1, tag, s) ==
    IF s < ShardBoundary /\ Len(tags0) < 2
    THEN <<Append(tags0, <<tag, s>>), tags1>>
    ELSE IF s >= ShardBoundary /\ Len(tags1) < 2
    THEN <<tags0, Append(tags1, <<tag, s>>)>>
    ELSE <<tags0, tags1>>

\* shard0_tags = []; shard1_tags = []
InitSearch ==
    /\ search_i = 0
    /\ search_pc = "for"
    /\ shard0_tags = <<>>
    /\ shard1_tags = <<>>
    /\ remapIdle /\ slotIdle /\ crcIdle /\ shardIdle /\ threadIdle /\ mainIdle

\* for i in range(1000): the next i, or the end of the range
SearchFor ==
    /\ search_pc = "for"
    /\ search_pc' = IF search_i < SearchRange THEN "body" ELSE "done"
    /\ UNCHANGED <<search_i, shard0_tags, shard1_tags>>
    /\ UNCHANGED <<remapVars, threadVars, mainVars, slotVars, crcVars, shardVars>>

\* tag = f"slot{i}"; slot = key_slot(tag); the if / elif with the appends
SearchBody ==
    /\ search_pc = "body"
    /\ LET tag == slot_tag(search_i)
           lists == search_append(shard0_tags, shard1_tags, tag, key_slot(tag))
       IN  shard0_tags' = lists[1] /\ shard1_tags' = lists[2]
    /\ search_pc' = "break_test"
    /\ UNCHANGED search_i
    /\ UNCHANGED <<remapVars, threadVars, mainVars, slotVars, crcVars, shardVars>>

\* if len(shard0_tags) >= 2 and len(shard1_tags) >= 2: break
SearchBreakTest ==
    /\ search_pc = "break_test"
    /\ IF Len(shard0_tags) >= 2 /\ Len(shard1_tags) >= 2
       THEN search_pc' = "done" /\ search_i' = search_i
       ELSE search_pc' = "for" /\ search_i' = search_i + 1
    /\ UNCHANGED <<shard0_tags, shard1_tags>>
    /\ UNCHANGED <<remapVars, threadVars, mainVars, slotVars, crcVars, shardVars>>

NextSearch == SearchFor \/ SearchBody \/ SearchBreakTest

\* calculate_slots.py: its functions on their inputs and its __main__ block
InitCalculateSlots == InitCrc \/ InitSlots \/ InitShard \/ InitSearch
NextCalculateSlots == NextCrc \/ NextSlots \/ NextShard \/ NextSearch
SpecCalculateSlots == InitCalculateSlots /\ [][NextCalculateSlots]_vars

\* the whole repository: any one of the programs
Init == InitRemap \/ InitThreads \/ InitMain \/ InitCalculateSlots
Next == NextRemap \/ NextThreads \/ NextMain \/ NextCalculateSlots
Spec == Init /\ [][Next]_vars

(***************************************************************************)
(* Claims about remap (checked under SpecRemap)                            *)
(***************************************************************************)

\* remap has been called and has returned
RemapReturned == result # NoResult

\* the octets q lie in 10.0.0.0/8, 172.16.0.0/12 or 192.168.0.0/16
InPrivateRanges(q) ==
    \/ q[1] = 10
    \/ q[1] = 172 /\ 16 <= q[2] /\ q[2] <= 31
    \/ q[1] = 192 /\ q[2] = 168

\* C1: for every address and every public hostname, in each of the three
\* programs, the address remap returns has the port of its argument,
\* whether or not the host was rewritten.
C1_PortPreserved ==
    RemapReturned => result[2] = address[2]

\* C1 witness: the cluster program has rewritten the host of a node on port
\* 8500, which is not the configured port, and kept the port.
C1_Witness ==
    /\ RemapReturned
    /\ program = "cluster"
    /\ result[1] # address[1]
    /\ address[2] = 8500
    /\ result[2] = 8500

\* C2 as stated: the cluster program's remap returns (publicHost, port) if
\* and only if the dotted quad is in one of the three private ranges, and
\* returns its argument otherwise.
C2_RewrittenIffPrivate ==
    (RemapReturned /\ program = "cluster" /\ node_ip # NoIp) =>
        /\ (result = <<public_hostname, address[2]>>) <=> InPrivateRanges(node_ip)
        /\ ~InPrivateRanges(node_ip) => result = address

\* C2 amended: the cluster program's remap returns (publicHost, port) if and
\* only if the dotted quad is in one of the three private ranges or the host
\* already is publicHost; outside the ranges it returns its argument.  The
\* named addresses: 172.15.0.1, 172.32.0.1 and 203.0.113.5:10000 come back
\* unchanged, 172.16.0.1, 172.31.255.255 and 10.0.2.4:8500 come back as
\* (publicHost, port).
C2_RewrittenIffPrivateOrSameHost ==
    (RemapReturned /\ program = "cluster" /\ node_ip # NoIp) =>
        /\ (result = <<public_hostname, address[2]>>)
              <=> (InPrivateRanges(node_ip) \/ address[1] = public_hostname)
        /\ ~InPrivateRanges(node_ip) => result = address
        /\ node_ip \in {<<172, 15, 0, 1>>, <<172, 32, 0, 1>>} => result = address
        /\ node_ip \in {<<172, 16, 0, 1>>, <<172, 31, 255, 255>>}
              => result = <<public_hostname, address[2]>>
        /\ (node_ip = <<10, 0, 2, 4>> /\ address[2] = 8500)
              => result = <<public_hostname, 8500>>
        /\ (node_ip = <<203, 0, 113, 5>> /\ address[2] = 10000)
              => result = <<DottedQuad(<<203, 0, 113, 5>>), 10000>>

\* C2 witness: the cluster program has rewritten 172.31.255.255, the last
\* address of 172.16.0.0/12, to redis-xxx.azure.net.
C2_Witness ==
    /\ RemapReturned
    /\ program = "cluster"
    /\ node_ip = <<172, 31, 255, 255>>
    /\ public_hostname = RedisAzureNet
    /\ result = <<RedisAzureNet, address[2]>>

\* C3: the remap of the user-assigned and system-assigned programs (built
\* here for redis-xxx.azure.net) leaves every dotted quad outside the three
\* private ranges unchanged.
C3_BarePrefixOnlyPrivate ==
    (/\ RemapReturned
     /\ program \in {"user_assigned", "system_assigned"}
     /\ public_hostname = RedisAzureNet
     /\ node_ip # NoIp)
        => (~InPrivateRanges(node_ip) => result = address)

\* C4: remap (built here for redis-xxx.azure.net) returns its argument
\* unchanged for every host that is a name and not an IPv4 dotted quad.
C4_HostnamesUnchanged ==
    (/\ RemapReturned
     /\ program = "cluster"
     /\ public_hostname = RedisAzureNet
     /\ address[1] \in Hostnames)
        => result = address

\* C5: create_address_remap("") and create_address_remap(None) raise and
\* return no remap function.
C5_EmptyHostnameRaises ==
    public_hostname \in {<<>>, NoneValue} => (exc # "none" /\ ~remap_made)

\* remap has been applied to the address it returned, and has returned
RemapAgainReturned == again # NoResult

\* C11: with a DNS name captured as the public hostname (a name is no
\* private-looking dotted quad), the cluster program's remap is idempotent,
\* remap(remap(a)) = remap(a), and the host of remap(a) for a private node
\* address a is not itself classified as private.
C11_RemapIdempotent ==
    (/\ RemapAgainReturned
     /\ program = "cluster"
     /\ public_hostname \in Hostnames)
        => /\ again = result
           /\ (node_ip # NoIp /\ InPrivateRanges(node_ip))
                  => ~cluster_is_internal(result[1])

\* C13: for the malformed dotted-quad-like hosts '10.', '10.abc',
\* '10.999.1.1', '192.168.', '172.16.' and '10.0.0.0.0.1', remap (built
\* here for redis-xxx.azure.net) raises nothing and returns the address
\* unchanged.
C13_MalformedUnchanged ==
    (/\ RemapReturned
     /\ program = "cluster"
     /\ public_hostname = RedisAzureNet
     /\ address[1] \in MalformedHosts)
        => (exc = "none" /\ result = address)

\* the host begins with '172.'
Starts172(host) == startswith(host, <<"1", "7", "2", ".">>)

\* the host begins with one of '172.16.' .. '172.31.'
Starts172_16to31(host) ==
    \E b \in 16..31 : startswith(host, <<"1", "7", "2", ".">> \o Dec(b) \o <<".">>)

\* C19: on one captured hostname and one address, the user-assigned
\* program's bare-prefix remap returns what the cluster program's
\* enumerated-prefix remap returns whenever the host does not begin with
\* '172.' or begins with one of '172.16.' .. '172.31.'; whatever the
\* enumerated remap rewrites, the bare-prefix remap rewrites to the same
\* address; for a host that begins with '172.' and with none of the
\* sixteen prefixes the bare-prefix remap rewrites and the enumerated
\* remap returns the address unchanged.
C19_VariantsDifferOnlyOn172 ==
    (RemapReturned /\ program = "user_assigned") =>
        LET enumerated == cluster_remap(public_hostname, address)
            rewritten  == <<public_hostname, address[2]>>
        IN  /\ (~Starts172(address[1]) \/ Starts172_16to31(address[1]))
                  => result = enumerated
            /\ cluster_is_internal(address[1])
                  => (enumerated = rewritten /\ result = rewritten)
            /\ (Starts172(address[1]) /\ ~Starts172_16to31(address[1]))
                  => (result = rewritten /\ enumerated = address)

\* C19 witness: the user-assigned remap has rewritten 172.32.0.1:8500,
\* which the cluster remap returns unchanged.
C19_Witness ==
    /\ RemapReturned
    /\ program = "user_assigned"
    /\ node_ip = <<172, 32, 0, 1>>
    /\ public_hostname = RedisAzureNet
    /\ result = <<RedisAzureNet, 8500>>
    /\ cluster_remap(public_hostname, address) = address

(***************************************************************************)
(* Claims about concurrent remap calls (checked under SpecThreads)         *)
(***************************************************************************)

\* every call that has returned gave what one call alone gives
IsolatedResults ==
    \A t \in Threads :
        th_result[t] # NoResult
            => th_result[t] = cluster_remap(public_hostname, th_address[t])

\* C12: under every interleaving of the threads' remap calls, and after
\* any earlier calls, each call returns what the same call returns alone,
\* and no step changes the captured public hostname.
C12_ThreadsIsolated ==
    [](IsolatedResults) /\ [][public_hostname' = public_hostname]_vars

\* C12 witness: thread 1 tested and returned a rewritten address inside
\* thread 2's call (thread 2 had logged and has not returned yet, the
\* latest log record is thread 1's), thread 1 being on its second call.
C12_Witness ==
    /\ th_pc[2] = "return_public"
    /\ th_calls[1] = 2
    /\ th_result[1] = <<public_hostname, 8500>>
    /\ th_port[2] = 10000
    /\ log_record = th_address[1]

(***************************************************************************)
(* Claims about main() (checked under SpecMain)                            *)
(***************************************************************************)

\* two characters that are equal or the two cases of one letter
SameLetter(a, b) ==
    \/ a = b
    \/ \E n \in 1..26 : {a, b} = {UpperLetters[n], LowerLetters[n]}

\* two strings that are equal up to the case of their letters
EqualsIgnoringCase(s, t) ==
    /\ Len(s) = Len(t)
    /\ \A n \in 1..Len(s) : SameLetter(s[n], t[n])

\* REDIS_CLUSTER_POLICY is set and reads 'OSSCluster' in some casing
PolicyIsOss ==
    /\ environ.REDIS_CLUSTER_POLICY # NoneValue
    /\ EqualsIgnoringCase(environ.REDIS_CLUSTER_POLICY, OSSCluster)

\* the two programs that read REDIS_CLUSTER_POLICY
PolicyPrograms == {"user_assigned", "system_assigned"}

\* C14 as stated: every finished run of the user-assigned and
\* system-assigned programs has created exactly one client, the
\* RedisCluster client with address_remap iff REDIS_CLUSTER_POLICY is
\* 'OSSCluster' in some casing, else the Redis client without any
\* create_address_remap call.
C14_OneClientPerRun ==
    (program \in PolicyPrograms /\ main_pc = "exited") =>
        /\ ("RedisCluster" \in clients /\ remap_made) <=> PolicyIsOss
        /\ ~PolicyIsOss => ("Redis" \in clients /\ ~remap_made)
        /\ Cardinality(clients) = 1

\* C14, amended: a run creates at most one client; the RedisCluster client
\* (with address_remap) only when REDIS_CLUSTER_POLICY is 'OSSCluster' in
\* some casing, the Redis client only when it is not, and
\* create_address_remap is called only in the first case; a run creates
\* exactly one client, of the kind the policy selects, once get_config,
\* the credential provider factory and the client constructor have returned.
C14_OneClientPerConfiguredRun ==
    program \in PolicyPrograms =>
        /\ "RedisCluster" \in clients => (remap_made /\ PolicyIsOss)
        /\ "Redis" \in clients => ~PolicyIsOss
        /\ remap_made => PolicyIsOss
        /\ Cardinality(clients) <= 1
        /\ (\/ main_pc \in {"demo", "close", "return"}
            \/ main_pc = "exited" /\ exc = "none")
              => /\ Cardinality(clients) = 1
                 /\ "RedisCluster" \in clients <=> PolicyIsOss

\* C14 witness: the user-assigned program ran to its end with
\* REDIS_CLUSTER_POLICY=OSSCLUSTER and built the RedisCluster client with
\* the remap closure.
C14_Witness ==
    /\ program = "user_assigned"
    /\ environ.REDIS_CLUSTER_POLICY = OSSCLUSTER
    /\ main_pc = "exited"
    /\ exit_code = 0
    /\ clients = {"RedisCluster"}
    /\ remap_made

\* REDIS_HOSTNAME is unset or empty
HostnameMissing == environ.REDIS_HOSTNAME \in {NoneValue, <<>>}

\* C20: in every example's main(), when REDIS_HOSTNAME is missing or empty
\* get_config raises ValueError and no credential provider, remap closure
\* or client is ever created; nothing is created before get_config has
\* returned; create_address_remap is only called with a non-empty hostname.
C20_ConfigBeforeConstruction ==
    /\ HostnameMissing =>
          /\ main_pc # "get_config" => exc = "ValueError"
          /\ ~credential_provider /\ ~remap_made /\ clients = {}
    /\ (credential_provider \/ remap_made \/ clients # {}) => config # NoConfig
    /\ remap_made => (public_hostname # <<>> /\ public_hostname # NoneValue)

\* C20 witness: a run with REDIS_HOSTNAME unset and the client id set has
\* ended with status 1 on get_config's ValueError.
C20_Witness ==
    /\ environ.REDIS_HOSTNAME = NoneValue
    /\ environ.AZURE_CLIENT_ID = MyClientId
    /\ environ.REDIS_PORT = NoneValue
    /\ main_pc = "exited"
    /\ exc = "ValueError"
    /\ exit_code = 1

\* the cluster example's main() has been left with a client constructed
ClusterMainLeftWithClient ==
    program = "cluster" /\ main_pc = "exited" /\ clients # {}

\* the cluster example's main() returns 0 exactly when get_config, the client
\* construction, run_demo and client.close() all completed without exception
ClusterExitStatus ==
    (program = "cluster" /\ main_pc = "exited") =>
       /\ exit_code \in {0, 1}
       /\ exit_code = 0 <=>
             (config # NoConfig /\ clients # {} /\ banner /\ closed /\ exc = "none")

\* C21: in the cluster example's main(), every client that
\* create_redis_cluster_client returned has had close() called by the time
\* main is left, on the success path and when an operation of run_demo
\* raised, and main returns 0 if and only if configuration loading, client
\* creation, the demo and close all completed without an exception.
C21_ClientClosedOnEveryPath ==
    /\ ClusterMainLeftWithClient => closed
    /\ ClusterExitStatus

\* every exception a client call of the demo raised is a RedisError
OnlyRedisErrors == \A f \in demo_failed : f[2] = "RedisError"

\* the demo called `op` on the client; the call raised
Attempted(op) == \E i \in 1..Len(demo_ops) : demo_ops[i] = op
Failed(op) == \E f \in demo_failed : f[1] = op

\* the demo function has been entered and left
DemoLeft == clients # {} /\ main_pc \in {"close", "return", "except", "exited"}

\* the order in which run_demo_operations of the user-assigned example
\* calls the client
UserAssignedOrder == <<"PING", "SET", "GET", "INCR", "INFO", "DELETE">>

\* C22: in run_demo_operations of the user-assigned example, with every
\* client call succeeding or raising RedisError, the operations are
\* attempted in the order PING, SET, GET, INCR, INFO, DELETE; a failed PING,
\* SET or GET is the last operation attempted and ends the function, a
\* failed INCR or INFO does not end it; once the function is left DELETE
\* was attempted exactly when PING, SET and GET all succeeded; and
\* client.close() is called after the function, in every one of these cases.
C22_DemoOrderAndCleanup ==
    (program = "user_assigned" /\ OnlyRedisErrors) =>
       /\ Len(demo_ops) <= Len(UserAssignedOrder)
       /\ \A i \in 1..Len(demo_ops) : demo_ops[i] = UserAssignedOrder[i]
       /\ \A i \in 1..Len(demo_ops) :
             (demo_ops[i] \in {"PING", "SET", "GET"} /\ Failed(demo_ops[i]))
                => (i = Len(demo_ops) /\ DemoLeft)
       /\ (demo_ops # <<>> /\ demo_ops[Len(demo_ops)] \in {"INCR", "INFO"})
             => main_pc = "demo"
       /\ DemoLeft => (Attempted("DELETE") <=>
                         (~Failed("PING") /\ ~Failed("SET") /\ ~Failed("GET")))
       /\ closed => (DemoLeft /\ main_pc # "close")
       /\ (clients # {} /\ main_pc \in {"return", "except", "exited"}) => closed

\* C22 witness: the user-assigned example has ended after a run in which
\* INCR raised RedisError, DELETE was still attempted and the client closed.
C22_Witness ==
    /\ program = "user_assigned"
    /\ main_pc = "exited"
    /\ demo_failed = {<<"INCR", "RedisError">>}
    /\ demo_ops = UserAssignedOrder
    /\ closed
    /\ exit_code = 0

\* C23: run_demo_operations of the user-assigned example prints the
\* closing banner "DEMO COMPLETE - All operations successful!" only if
\* every operation of the demo (PING, SET, GET, INCR, INFO and the cleanup
\* DELETE) succeeded; whenever one of them raised RedisError the banner is
\* not printed.
C23_BannerOnlyAfterFullSuccess ==
    (program = "user_assigned" /\ banner) =>
       /\ demo_ops = UserAssignedOrder
       /\ demo_failed = {}

(***************************************************************************)
(* Claims about key_slot (checked under SpecSlots)                         *)
(***************************************************************************)

\* key_slot has been called and has returned
KeySlotReturned == slot # -1

\* position i (1-based) holds the first '{' of k
IsFirstOpen(k, i) ==
    /\ k[i] = 123
    /\ \A m \in 1..(i - 1) : k[m] # 123

\* the pairs <<i, j>>: i holds the first '{' of k and j the first '}' after it
TagSpans(k) ==
    {sp \in (1..Len(k)) \X (1..Len(k)) :
        /\ IsFirstOpen(k, sp[1])
        /\ sp[2] > sp[1]
        /\ k[sp[2]] = 125
        /\ \A m \in (sp[1] + 1)..(sp[2] - 1) : k[m] # 125}

\* those with at least one character between the braces
NonEmptyTagSpans(k) == {sp \in TagSpans(k) : sp[2] > sp[1] + 1}

\* the characters strictly between the braces
TagOf(k, sp) == SubSeq(k, sp[1] + 1, sp[2] - 1)

\* texts without '{' to put before a tag, and texts to put after it
TagPrefixes == {<<>>, <<97>>, <<125>>, <<125, 233>>}
TagSuffixes == {<<>>, <<97>>, <<125>>, <<123, 97, 125>>}

\* C6: when the first '}' after the first '{' of the key is not adjacent to
\* it, key_slot(key) is crc16 of the bytes between the two, modulo 16384; it
\* is the slot of the tag alone and of every other key carrying that tag,
\* whatever stands before the '{' or after the '}'.  So
\* key_slot("{user1000}.following") = key_slot("user1000").
C6_TagOnlyHashed ==
    KeySlotReturned =>
        /\ \A sp \in NonEmptyTagSpans(key) :
              LET tag == TagOf(key, sp)
              IN  /\ slot = crc16(encode(tag)) % 16384
                  /\ slot = key_slot(tag)
                  /\ \A pre \in TagPrefixes, post \in TagSuffixes :
                        key_slot(pre \o <<123>> \o tag \o <<125>> \o post) = slot
        /\ key = KeyUser1000Following => slot = key_slot(KeyUser1000)

\* C6 witness: key_slot("{user1000}.following") has returned 3443, the
\* slot of "user1000".
C6_Witness ==
    /\ KeySlotReturned
    /\ key = KeyUser1000Following
    /\ NonEmptyTagSpans(key) = {<<1, 10>>}
    /\ slot = 3443

\* the key has no '{'
NoOpenBrace(k) == \A i \in 1..Len(k) : k[i] # 123

\* no '}' stands after the first '{'
NoCloseAfterOpen(k) ==
    \E i \in 1..Len(k) :
        IsFirstOpen(k, i) /\ \A j \in (i + 1)..Len(k) : k[j] # 125

\* the first '{' is directly followed by '}'
EmptyTag(k) ==
    \E i \in 1..(Len(k) - 1) : IsFirstOpen(k, i) /\ k[i + 1] = 125

\* C7: key_slot hashes the whole key when it has no '{', when no '}' follows
\* the first '{', or when the first '{' is directly followed by '}'; a later
\* tag is not used: "{}{a}" and "{}.data" get the slot of their full text,
\* not that of "" or of "a".
C7_WholeKeyHashed ==
    KeySlotReturned =>
        /\ (NoOpenBrace(key) \/ NoCloseAfterOpen(key) \/ EmptyTag(key))
              => slot = crc16(encode(key)) % 16384
        /\ key = KeyEmptyTagThenA =>
              /\ slot = crc16(encode(KeyEmptyTagThenA)) % 16384
              /\ slot # crc16(<<>>) % 16384
              /\ slot # crc16(<<97>>) % 16384
        /\ key = KeyEmptyTagData =>
              /\ slot = crc16(encode(KeyEmptyTagData)) % 16384
              /\ slot # crc16(<<>>) % 16384

\* C7 witness: key_slot("{}{a}") has returned 13650, the slot of the five
\* characters.
C7_Witness ==
    /\ KeySlotReturned
    /\ key = KeyEmptyTagThenA
    /\ EmptyTag(key)
    /\ slot = 13650

\* the input key_slot is to hash: the tag when there is a non-empty one,
\* the key otherwise
HashInput(k) ==
    IF NonEmptyTagSpans(k) # {}
    THEN TagOf(k, CHOOSE sp \in NonEmptyTagSpans(k) : TRUE)
    ELSE k

\* C9: for every key, key_slot(key) is an integer in [0, 16384) and equals
\* crc16 of the hashing input modulo 16384.
C9_SlotInRange ==
    KeySlotReturned =>
        /\ slot \in 0..16383
        /\ slot = crc16(encode(HashInput(key))) % 16384

\* C9 witness: key_slot("foo") has returned 12182, while crc16(b"foo") is
\* 44950, beyond the slot range.
C9_Witness ==
    /\ KeySlotReturned
    /\ key = KeyFoo
    /\ crc16(encode(key)) = 44950
    /\ slot = 12182

\* the slots the comments of run_demo give for 'slot0' .. 'slot3'
CommentedSlot(n) ==
    CASE n = 0 -> 8224
      [] n = 1 -> 12289
      [] n = 2 -> 98
      [] n = 3 -> 4163

\* C17: key_slot('slot2') = 98 and key_slot('slot3') = 4163 (shard 0 of 2),
\* key_slot('slot0') = 8224 and key_slot('slot1') = 12289 (shard 1 of 2);
\* the key 'py-cluster:{slotN}:<timestamp>' has the slot of 'slotN' for
\* every timestamp, on the shard the test_keys entry names.
C17_DemoKeysCoverBothShards ==
    KeySlotReturned =>
        /\ \A n \in 0..3 : key = slot_tag(n) => slot = CommentedSlot(n)
        /\ \A n \in 0..3, e \in 1..Len(test_keys), t \in Timestamps :
              (/\ test_keys[e][1] = <<123>> \o slot_tag(n) \o <<125>>
               /\ key = demo_key(test_keys[e][1], t))
                  => /\ slot = CommentedSlot(n)
                     /\ test_keys[e][2] = "shard0" <=> slot <= 8191
                     /\ test_keys[e][2] = "shard1" <=> slot >= 8192

\* C17 witness: key_slot has returned 98 for a run_demo key tagged
\* {slot2} whose timestamp has microseconds.
C17_Witness ==
    /\ KeySlotReturned
    /\ \E t \in Timestamps :
          Len(t) > 19 /\ key = demo_key(<<123>> \o slot_tag(2) \o <<125>>, t)
    /\ slot = 98

(***************************************************************************)
(* Claims about crc16 (checked under SpecCrc)                              *)
(***************************************************************************)

\* the bits of a byte, most significant first
ByteBits(b) == [i \in 1..8 |-> (b \div (2 ^ (8 - i))) % 2]

\* the bits of a byte string, most significant bit of the first byte first
RECURSIVE MessageBits(_)
MessageBits(bytes) ==
    IF bytes = <<>> THEN <<>>
    ELSE ByteBits(Head(bytes)) \o MessageBits(Tail(bytes))

\* x^16 + x^12 + x^5 + 1, highest coefficient first
XmodemGenerator == <<1, 0, 0, 0, 1, 0, 0, 0, 0, 0, 0, 1, 0, 0, 0, 0, 1>>

\* the remainder of the polynomial `bits` over GF(2) divided by the generator
RECURSIVE PolyRemainder(_)
PolyRemainder(bits) ==
    IF Len(bits) <= 16 THEN bits
    ELSE IF bits[1] = 0 THEN PolyRemainder(Tail(bits))
    ELSE PolyRemainder(Tail([i \in 1..Len(bits) |->
             IF i <= 17 THEN (bits[i] + XmodemGenerator[i]) % 2 ELSE bits[i]]))

\* the number a bit sequence spells
RECURSIVE BitsValue(_)
BitsValue(bits) ==
    IF bits = <<>> THEN 0
    ELSE 2 * BitsValue(SubSeq(bits, 1, Len(bits) - 1)) + bits[Len(bits)]

\* CRC-16/XMODEM by its definition: the remainder of message * x^16 divided
\* by the generator, initial value 0, nothing reflected, no final XOR
XmodemReference(bytes) ==
    BitsValue(PolyRemainder(MessageBits(bytes) \o [i \in 1..16 |-> 0]))

\* C8: crc16 is CRC-16/XMODEM: what it returns for a byte string is the
\* reference's result; for "123456789" it is the catalogued check value
\* 0x31C3; for the empty input it is 0, and key_slot("") = 0.
C8_Crc16IsXmodem ==
    crc_pc = "done" =>
        /\ crc = XmodemReference(data)
        /\ crc = crc16(data)
        /\ data = Digits1to9 => crc = 12739
        /\ data = <<>> => (crc = 0 /\ key_slot(<<>>) = 0)

\* C8 witness: crc16(b"123456789") has returned 0x31C3.
C8_Witness ==
    /\ crc_pc = "done"
    /\ data = Digits1to9
    /\ idx = 10
    /\ crc = 12739

\* C15: the crc16 register lies in 0..0xFFFF after the XOR of each input
\* byte into its top 8 bits, after each of the 8 shift/XOR passes and at
\* the return; a pass gives what the shift and the XOR give in arithmetic
\* modulo 2^16.
C15_RegisterWithin16Bits ==
    /\ 0 <= crc /\ crc <= 65535
    /\ (crc_pc = "for_bit" /\ iter < 8) =>
          Crc16Iteration(crc) =
              IF crc >= 32768
              THEN BitXor((2 * crc) % 65536, 4129)
              ELSE (2 * crc) % 65536

\* C15 witness: in the middle of byte 0xFF the register has its top bit
\* set, so that the next shift drops a bit.
C15_Witness ==
    /\ crc_pc = "for_bit"
    /\ iter = 3
    /\ data[idx] = 255
    /\ crc >= 32768

(***************************************************************************)
(* Claims about get_shard (checked under SpecShard)                        *)
(***************************************************************************)

\* C10: for every slot in [0, 16384) and every shard count, get_shard
\* returns a shard index in [0, num_shards).
C10_ShardIndexInRange ==
    shard # -1 => (0 <= shard /\ shard < num_shards)

\* the greatest k with k * n <= 16384, for each shard count n
SlotsPerShard ==
    [n \in ShardCounts |->
        CHOOSE k \in 1..16384 : k * n <= 16384 /\ 16384 < (k + 1) * n]

\* C16: get_shard(slot, n) is floor(slot / floor(16384 / n)): the shard
\* index times the slots per shard is at most the slot, which is below the
\* next multiple; it never decreases from one slot to the next and grows
\* by at most one (contiguous ranges); for n = 2 it is 0 exactly on
\* 0..8191 and 1 exactly on 8192..16383.
C16_ShardIsFloorQuotient ==
    shard # -1 =>
        /\ shard * SlotsPerShard[num_shards] <= shard_slot
        /\ shard_slot < (shard + 1) * SlotsPerShard[num_shards]
        /\ shard_slot > 0 =>
              get_shard(shard_slot - 1, num_shards) \in {shard - 1, shard}
        /\ num_shards = 2 =>
              /\ shard = 0 <=> shard_slot <= 8191
              /\ shard = 1 <=> shard_slot >= 8192

\* C16 witness: get_shard(8192, 2) has returned 1, the first slot of the
\* second shard.
C16_Witness ==
    /\ num_shards = 2
    /\ shard_slot = 8192
    /\ shard = 1

(***************************************************************************)
(* Claims about the tag search (checked under SpecCalculateSlots)          *)
(***************************************************************************)

\* C18: while the search loop runs and after it, shard0_tags holds at most
\* 2 pairs (tag, slot) with slot = key_slot(tag) < 8192, shard1_tags at
\* most 2 with slot = key_slot(tag) >= 8192, no tag is in both lists, the
\* tags are among slot0 .. slot999, the loop is never at its head with
\* both lists full, and it has ended only with both lists full or the
\* 1000 candidates used up.
C18_TagSearchInvariant ==
    search_pc # "idle" =>
        /\ Len(shard0_tags) <= 2
        /\ \A e \in 1..Len(shard0_tags) :
              /\ shard0_tags[e][2] = key_slot(shard0_tags[e][1])
              /\ shard0_tags[e][2] < 8192
        /\ Len(shard1_tags) <= 2
        /\ \A e \in 1..Len(shard1_tags) :
              /\ shard1_tags[e][2] = key_slot(shard1_tags[e][1])
              /\ shard1_tags[e][2] >= 8192
        /\ \A e \in 1..Len(shard0_tags), f \in 1..Len(shard1_tags) :
              shard0_tags[e][1] # shard1_tags[f][1]
        /\ \A e \in 1..Len(shard0_tags) :
              \E n \in 0..999 : n <= search_i /\ shard0_tags[e][1] = slot_tag(n)
        /\ \A e \in 1..Len(shard1_tags) :
              \E n \in 0..999 : n <= search_i /\ shard1_tags[e][1] = slot_tag(n)
        /\ search_pc \in {"for", "body"} =>
              ~(Len(shard0_tags) = 2 /\ Len(shard1_tags) = 2)
        /\ search_pc = "done" =>
              \/ Len(shard0_tags) = 2 /\ Len(shard1_tags) = 2
              \/ search_i = 1000

\* C18 witness: the loop has ended on its break with two tags per shard.
C18_Witness ==
    /\ search_pc = "done"
    /\ Len(shard0_tags) = 2
    /\ Len(shard1_tags) = 2
    /\ search_i < 999

====
